---- MODULE Spec2Model ----
(***************************************************************************)
(* Leader election of Cloud-Node/src/main.rs (UDP "modified Bully" with a  *)
(* successor hint).  Every node runs four tokio tasks over shared cells    *)
(* that are locked one at a time: the startup task (start /                *)
(* discover_cluster), the listener (listen / handle_message), the leader   *)
(* monitor and the heartbeat sender.  A step of the model is one lock      *)
(* acquisition, or a run of acquisitions whose interleaving with the other *)
(* tasks cannot change an outcome; the states between the writes of        *)
(* become_leader, of the Coordinator handler and of monitor_leader are     *)
(* states of the model.                                                    *)
(*                                                                         *)
(* Time is counted in units of 500 ms.  In the cluster (Spec) all clocks   *)
(* advance together and only when no task is between two sleeps; a node    *)
(* observed on its own (NodeSpec) receives any datagram at any moment and  *)
(* its sleeps end in any order.  CoordSpec starts a node in any condition  *)
(* of its fields and hands it the same Coordinator twice.                  *)
(* LossSpec is the cluster in which a follower's process may stop as well. *)
(*                                                                         *)
(* The stream variant (node.rs, network.rs, message.rs) is modelled next   *)
(* to it: ConnSpec follows the connections nodes open to one another when  *)
(* they join, FrameSpec the length-prefixed frames written to one stream.  *)
(* LockSpec follows the lock of one connection's stream, taken by its      *)
(* read loop and by a sender; PidSpec the logical PIDs the nodes of        *)
(* node.rs give themselves when they join and when the leader fails.       *)
(***************************************************************************)
EXTENDS Integers, FiniteSets, Sequences, TLC

\* ---------------------------------------------------------------- bounds
MaxKills == 1     \* processes killed in one run of the cluster
MaxBatch == 3     \* messages written to one stream

\* ------------------------------------------------- program constants
MaxNodeId == 2        \* default configuration: nodes 0, 1, 2
BootSleep == 1        \* start: sleep 500 ms
DiscoveryWait == 4    \* discover_cluster: sleep 2 s
DeferWait == 2        \* start_election: sleep 800 ms (rounded up to 1 s)
ElectionWait == 3     \* start_election: sleep 1500 ms
HeartbeatEvery == 4   \* send_heartbeats: interval 2 s
MonitorEvery == 2     \* monitor_leader: interval 1 s
FailTimeout == 10     \* monitor_leader: elapsed > 5 s

Nodes == 0..MaxNodeId
None == -1
OptNode == Nodes \cup {None}

Threads == {"main", "lis", "mon", "hb"}
Electors == {"main", "lis", "mon"}

NodeState == {"Follower", "Candidate", "Leader"}

MsgTypes == {"Discovery", "LeaderAnnounce", "Election", "ElectionOk",
             "Coordinator", "Heartbeat", "HeartbeatAck"}

\* One datagram: id is sender_id / leader_id, succ is successor_id.
Msg(type, id, dst, succ) == [type |-> type, id |-> id, dst |-> dst, succ |-> succ]

VARIABLES
    alive,                 \* process is running
    state,                 \* Node.state
    current_leader,        \* Node.current_leader
    successor_hint,        \* Node.successor_hint
    active_nodes,          \* key set of Node.active_nodes
    last_heartbeat,        \* time since Node.last_heartbeat was written
    election_in_progress,  \* Node.election_in_progress
    pc,                    \* position of every task of every node
    timer,                 \* time left of the sleep or tick a task waits for
    cur,                   \* message the listener is handling
    msgs,                  \* datagrams sent and not yet received
    kills,                 \* number of processes killed so far
    closed,                \* TRUE: the modelled nodes are all there is;
                           \* FALSE: a sleep may end at any moment and any
                           \* datagram of a peer may arrive at any moment
    okSeen,                \* history: stand-down received during the classic wait
    failover,              \* history: successor designated when the leader died
    restarted,             \* history: node was started again after a kill
    deferral,              \* history: node the 800 ms wait is for, and
                           \* whether its answer was handled in that wait
    dropped,               \* history: node that has ignored a Heartbeat
                           \* since time last passed
    stopped,               \* history: follower that was killed, and the
                           \* time since, up to just past two heartbeat
                           \* periods
    snap,                  \* history: node fields after a first Coordinator
    peers,                 \* stream nodes: Node.peers, peer id -> connection
    conns,                 \* stream nodes: connections established so far
    jp,                    \* stream nodes: position of join_network in
                           \* all_nodes
    wire,                  \* bytes written to a stream and not yet read
    outbox,                \* messages written to the stream, in order
    inbox,                 \* messages receive_one has returned, in order
    mutex,                 \* PeerConnection.stream: the task that holds the
                           \* lock and the tasks waiting for it, in order
    rd,                    \* position of read_loop on that connection
    wr,                    \* position of a task that calls send on it
    sent,                  \* number of messages send has written to it
    my_logical_pid,        \* stream Node.my_logical_pid
    is_leader,             \* stream Node.is_leader
    physical_to_logical,   \* stream Node.physical_to_logical
    logical_to_physical,   \* stream Node.logical_to_physical
    heard,                 \* key set of stream Node.last_heartbeat
    message_rx,            \* stream Node.message_rx: messages read and not
                           \* yet handled, in order
    unread                 \* messages written to a stream that no task reads

nodeVars == <<state, current_leader, successor_hint, active_nodes,
              last_heartbeat, election_in_progress>>
histVars == <<okSeen, failover, restarted, deferral, dropped, stopped,
             snap>>
envVars == <<alive, kills, closed>>
lockVars == <<mutex, rd, wr, sent>>
pidVars == <<my_logical_pid, is_leader, physical_to_logical,
            logical_to_physical, heard, message_rx, unread>>
streamVars == <<peers, conns, jp, wire, outbox, inbox, lockVars, pidVars>>
vars == <<alive, state, current_leader, successor_hint, active_nodes,
          last_heartbeat, election_in_progress, pc, timer, cur, msgs,
          kills, closed, okSeen, failover, restarted, deferral,
          dropped, stopped, snap, peers, conns, jp, wire, outbox, inbox,
          mutex, rd, wr, sent, my_logical_pid, is_leader,
          physical_to_logical, logical_to_physical, heard, message_rx,
          unread>>

NoMsg == Msg("none", None, None, None)
NoStop == [node |-> None, age |-> 0]
NoConn == <<>>
LogicalPids == 0..2

\* no stream node runs and no stream carries anything
StreamIdle ==
    /\ peers = [n \in Nodes |-> [m \in Nodes |-> NoConn]]
    /\ conns = {}
    /\ jp = [n \in Nodes |-> 0]
    /\ wire = <<>>
    /\ outbox = <<>>
    /\ inbox = <<>>
    /\ mutex = [holder |-> "none", waiting |-> <<>>]
    /\ rd = "call"
    /\ wr = "idle"
    /\ sent = 0
    /\ my_logical_pid = [n \in Nodes |-> 2]
    /\ is_leader = [n \in Nodes |-> FALSE]
    /\ physical_to_logical = [n \in Nodes |-> [m \in Nodes |-> None]]
    /\ logical_to_physical = [n \in Nodes |-> [l \in LogicalPids |-> None]]
    /\ heard = [n \in Nodes |-> {}]
    /\ message_rx = [n \in Nodes |-> <<>>]
    /\ unread = {}

NoDeferral == [to |-> None, ok |-> FALSE]
NoSnap == [round |-> 0, msg |-> NoMsg, fields |-> <<>>, age |-> 0]

\* ------------------------------------------------------------ helpers
Max(S) == CHOOSE x \in S : \A y \in S : y <= x

\* send_message: a datagram to a process that is not running is lost.
SendFrom(base, M) == base \cup {m \in M : alive[m.dst]}
Send(M) == SendFrom(msgs, M)

Others(n) == Nodes \ {n}

\* one datagram to every configured node whose id is not the sender's
\* (the first: to every configured node)
BroadcastToAll(type, n, succ) == {Msg(type, n, d, succ) : d \in Nodes}
Broadcast(type, n, succ) == {Msg(type, n, d, succ) : d \in Others(n)}

HigherNodesOrSelf(n) == {m \in Nodes : m >= n}
HigherNodes(n) == {m \in Nodes : m > n}

\* calculate_successor: highest id of active_nodes + self other than exclude_id
calculate_successor(self, active, exclude_id) ==
    LET ids == (active \cup {self}) \ {exclude_id}
    IN  IF ids = {} THEN None ELSE Max(ids)

\* elapsed > Duration::from_secs(5)
Stale(age) == age > FailTimeout

\* Node::new and the first sleep of start; monitor_leader and
\* send_heartbeats exist once start has returned from discover_cluster
InitPc == [t \in Threads |-> IF t = "main" THEN "disc_send" ELSE "idle"]
InitTimer == [t \in Threads |-> IF t = "main" THEN BootSleep ELSE 0]

\* where a task continues when start_election returns, and the time to
\* its next tick
ReturnPc(t) == IF t = "main" THEN "done" ELSE "idle"
ReturnTimer(t) == IF t = "mon" THEN MonitorEvery ELSE 0

\* the sleep that begins at a position
SleepOf(p) ==
    IF p = "el_defer" THEN DeferWait
    ELSE IF p = "el_wait" THEN ElectionWait
    ELSE IF p = "disc_wait" THEN DiscoveryWait ELSE 0

Goto(n, t, p, d) ==
    /\ pc' = [pc EXCEPT ![n][t] = p]
    /\ timer' = [timer EXCEPT ![n][t] = IF closed THEN d ELSE 0]

Return(n, t) == Goto(n, t, ReturnPc(t), ReturnTimer(t))

Running(n, t, p) == alive[n] /\ pc[n][t] = p

\* the sleep or tick the task waits for is over
Due(n, t, p) == Running(n, t, p) /\ timer[n][t] = 0

Spawned(n) == alive[n] /\ pc[n]["main"] = "done"

Init ==
    /\ alive = [n \in Nodes |-> TRUE]
    /\ state = [n \in Nodes |-> "Follower"]
    /\ current_leader = [n \in Nodes |-> None]
    /\ successor_hint = [n \in Nodes |-> None]
    /\ active_nodes = [n \in Nodes |-> {}]
    /\ last_heartbeat = [n \in Nodes |-> 0]
    /\ election_in_progress = [n \in Nodes |-> FALSE]
    /\ pc = [n \in Nodes |-> InitPc]
    /\ timer = [n \in Nodes |-> InitTimer]
    /\ cur = [n \in Nodes |-> NoMsg]
    /\ msgs = {}
    /\ kills = 0
    /\ closed = TRUE
    /\ okSeen = [n \in Nodes |-> FALSE]
    /\ failover = None
    /\ restarted = [n \in Nodes |-> FALSE]
    /\ deferral = [n \in Nodes |-> NoDeferral]
    /\ dropped = None
    /\ stopped = NoStop
    /\ StreamIdle
    /\ snap = NoSnap

\* ------------------------------------------------------- startup task
\* discover_cluster: Discovery to every other node, then sleep 2 s
DiscoverSend(n) ==
    /\ Due(n, "main", "disc_send")
    /\ msgs' = Send(Broadcast("Discovery", n, None))
    /\ Goto(n, "main", "disc_wait", SleepOf("disc_wait"))
    /\ UNCHANGED <<nodeVars, cur, envVars, streamVars, histVars>>

\* discover_cluster after the sleep: no leader known -> start_election
DiscoverCheck(n) ==
    /\ Due(n, "main", "disc_wait")
    /\ Goto(n, "main", IF current_leader[n] = None THEN "el_guard" ELSE "done", 0)
    /\ UNCHANGED <<nodeVars, cur, msgs, envVars, streamVars, histVars>>

\* ------------------------------------------------------ start_election
\* the guard of start_election, taken under the write lock
GuardPassesAlways(eip) == TRUE
GuardPasses(eip) == ~eip

\* guard found election_in_progress set: return
ElGuardReject(n, t) ==
    /\ Running(n, t, "el_guard")
    /\ ~GuardPasses(election_in_progress[n])
    /\ Return(n, t)
    /\ UNCHANGED <<nodeVars, cur, msgs, envVars, streamVars, histVars>>

\* where start_election goes after reading successor_hint: become_leader
\* when the hint is this node, the 800 ms wait on a higher hint, else the
\* normal Bully step, which is become_leader when no node is higher
HintTargetNoShortcut(self, hint) ==
    IF hint # None /\ hint > self THEN "el_defer"
    ELSE IF HigherNodes(self) = {} THEN "bl_state" ELSE "el_wait"
HintTarget(self, hint) ==
    IF hint = self THEN "bl_state"
    ELSE IF hint # None /\ hint > self THEN "el_defer"
    ELSE IF HigherNodes(self) = {} THEN "bl_state" ELSE "el_wait"

\* Election messages sent on the way to that position
ElectionsTo(self, target, hint) ==
    IF target = "el_defer" THEN {Msg("Election", self, hint, None)}
    ELSE IF target = "el_wait"
    THEN {Msg("Election", self, d, None) : d \in HigherNodes(self)}
    ELSE {}

\* guard passed: election_in_progress = true, then up to the first sleep
\* or to become_leader
ElStart(n, t) ==
    /\ Running(n, t, "el_guard")
    /\ GuardPasses(election_in_progress[n])
    /\ election_in_progress' = [election_in_progress EXCEPT ![n] = TRUE]
    /\ LET target == HintTarget(n, successor_hint[n]) IN
         /\ msgs' = Send(ElectionsTo(n, target, successor_hint[n]))
         /\ Goto(n, t, target, SleepOf(target))
         /\ okSeen' = IF target = "el_wait"
                      THEN [okSeen EXCEPT ![n] = FALSE] ELSE okSeen
         /\ deferral' = IF target = "el_defer"
                        THEN [deferral EXCEPT
                                ![n] = [to |-> successor_hint[n], ok |-> FALSE]]
                        ELSE deferral
    /\ UNCHANGED <<state, current_leader, successor_hint, active_nodes,
                   last_heartbeat, cur, envVars, streamVars, failover, restarted, dropped,
                   stopped, snap>>

\* election_in_progress as start_election leaves it on an exit path:
\* "promoted" (become_leader has returned), "deferred" (Leader after the
\* 800 ms wait), "waited" (Leader already at the end of the 1500 ms wait)
FlagKeptAfterWait(path) == path = "waited"
FlagOnExit(path) == FALSE

\* end of the 800 ms wait on the successor: "done" when this node is Leader,
\* else the normal Bully step
DeferVerdict(self, st) ==
    IF st = "Leader" THEN "done" ELSE HintTarget(self, None)

ElDeferWake(n, t) ==
    /\ Due(n, t, "el_defer")
    /\ deferral' = [deferral EXCEPT ![n] = NoDeferral]
    /\ LET target == DeferVerdict(n, state[n]) IN
         IF target = "done"
         THEN /\ election_in_progress' =
                     [election_in_progress EXCEPT ![n] = FlagOnExit("deferred")]
              /\ Return(n, t)
              /\ UNCHANGED <<msgs, okSeen>>
         ELSE /\ msgs' = Send(ElectionsTo(n, target, None))
              /\ Goto(n, t, target, SleepOf(target))
              /\ okSeen' = [okSeen EXCEPT ![n] = FALSE]
              /\ UNCHANGED election_in_progress
    /\ UNCHANGED <<state, current_leader, successor_hint, active_nodes,
                   last_heartbeat, cur, envVars, streamVars, failover, restarted, dropped,
                   stopped, snap>>

\* end of the 1500 ms wait: become_leader unless this node is Leader already
WaitVerdictInverted(st) == IF st = "Leader" THEN "bl_state" ELSE "done"
WaitVerdict(st) == IF st # "Leader" THEN "bl_state" ELSE "done"

ElWake(n, t) ==
    /\ Due(n, t, "el_wait")
    /\ IF WaitVerdict(state[n]) = "done"
       THEN /\ election_in_progress' =
                   [election_in_progress EXCEPT ![n] = FlagOnExit("waited")]
            /\ Return(n, t)
       ELSE /\ Goto(n, t, "bl_state", 0)
            /\ UNCHANGED election_in_progress
    /\ UNCHANGED <<state, current_leader, successor_hint, active_nodes,
                   last_heartbeat, cur, msgs, envVars, streamVars, histVars>>

\* become_leader, first write: state = Leader
BlState(n, t) ==
    /\ Running(n, t, "bl_state")
    /\ state' = [state EXCEPT ![n] = "Leader"]
    /\ Goto(n, t, "bl_leader", 0)
    /\ UNCHANGED <<current_leader, successor_hint, active_nodes, last_heartbeat,
                   election_in_progress, cur, msgs, envVars, streamVars, histVars>>

\* become_leader, the rest: current_leader, last_heartbeat, successor_hint,
\* active_nodes, Coordinator to every other node; then start_election
\* clears election_in_progress and returns
BlAnnounce(n, t) ==
    /\ Running(n, t, "bl_leader")
    /\ current_leader' = [current_leader EXCEPT ![n] = n]
    /\ last_heartbeat' = [last_heartbeat EXCEPT ![n] = 0]
    /\ successor_hint' = [successor_hint EXCEPT ![n] = None]
    /\ active_nodes' = [active_nodes EXCEPT ![n] = {}]
    /\ msgs' = Send(Broadcast("Coordinator", n, None))
    /\ election_in_progress' =
           [election_in_progress EXCEPT ![n] = FlagOnExit("promoted")]
    /\ Return(n, t)
    /\ UNCHANGED <<state, cur, envVars, streamVars, histVars>>

\* ------------------------------------------------------- monitor_leader
\* one tick: state != Leader and elapsed > 5 s lead to the election check
MonTick(n) ==
    /\ Spawned(n) /\ Due(n, "mon", "idle")
    /\ IF state[n] # "Leader" /\ Stale(last_heartbeat[n])
       THEN Goto(n, "mon", "mon_eip", 0)
       ELSE Goto(n, "mon", "idle", MonitorEvery)
    /\ UNCHANGED <<nodeVars, cur, msgs, envVars, streamVars, histVars>>

\* read election_in_progress; when clear, current_leader = None and
\* start_election
MonClearLeader(n) ==
    /\ Running(n, "mon", "mon_eip")
    /\ IF election_in_progress[n]
       THEN /\ Goto(n, "mon", "idle", MonitorEvery)
            /\ UNCHANGED current_leader
       ELSE /\ current_leader' = [current_leader EXCEPT ![n] = None]
            /\ Goto(n, "mon", "el_guard", 0)
    /\ UNCHANGED <<state, successor_hint, active_nodes, last_heartbeat,
                   election_in_progress, cur, msgs, envVars, streamVars, histVars>>

\* ------------------------------------------------------ send_heartbeats
\* one tick: read state
HbTick(n) ==
    /\ Spawned(n) /\ Due(n, "hb", "idle")
    /\ Goto(n, "hb", IF state[n] = "Leader" THEN "hb_send" ELSE "idle", HeartbeatEvery)
    /\ UNCHANGED <<nodeVars, cur, msgs, envVars, streamVars, histVars>>

\* current_leader.unwrap(): on None the task panics and is gone; else
\* calculate_successor and Heartbeat to every other node
HbSend(n) ==
    /\ Running(n, "hb", "hb_send")
    /\ IF current_leader[n] = None
       THEN /\ Goto(n, "hb", "panicked", 0)
            /\ UNCHANGED msgs
       ELSE /\ msgs' = Send(Broadcast("Heartbeat", n,
                   calculate_successor(n, active_nodes[n], current_leader[n])))
            /\ Goto(n, "hb", "idle", timer[n]["hb"])
    /\ UNCHANGED <<nodeVars, cur, envVars, streamVars, histVars>>

\* ------------------------------------------------------- handle_message
\* listen: the listener takes the next datagram only when the previous
\* handle_message (and a start_election it called) has returned
\* the datagrams a peer can send to n
Inbound(n) ==
    {Msg(ty, s, n, None) : ty \in MsgTypes \ {"Heartbeat"}, s \in Others(n)}
    \cup {Msg("Heartbeat", s, n, sc) : s \in Others(n), sc \in OptNode}

\* the listener of n is in recv_from and datagram m is there for it
Receivable(n, m) ==
    /\ alive[n] /\ pc[n]["lis"] = "idle" /\ m.dst = n
    /\ IF closed THEN m \in msgs ELSE m \in Inbound(n)

\* an ElectionOk or a Coordinator of the node an invocation of
\* start_election on n deferred to, handled while that invocation sleeps
\* in the 800 ms wait
Answered(n, m) ==
    IF m.id = deferral[n].to /\ \E t \in Electors : pc[n][t] = "el_defer"
    THEN [deferral EXCEPT ![n].ok = TRUE] ELSE deferral

\* a stand-down (ElectionOk or Coordinator of a higher node) handled while an
\* invocation of start_election on this node sleeps in the 1500 ms wait
StandDown(n, m) ==
    IF m.id > n /\ \E t \in Electors : pc[n][t] = "el_wait"
    THEN [okSeen EXCEPT ![n] = TRUE] ELSE okSeen

\* the reply to Discovery: LeaderAnnounce of a Leader, else nothing
\* (the first: LeaderAnnounce of any node)
DiscoveryReplyAnyRole(self, st, sender_id) ==
    {Msg("LeaderAnnounce", self, sender_id, None)}
DiscoveryReply(self, st, sender_id) ==
    IF st = "Leader" THEN {Msg("LeaderAnnounce", self, sender_id, None)} ELSE {}

\* Discovery: record the sender, a Leader answers LeaderAnnounce
OnDiscovery(n, m) ==
    /\ Receivable(n, m) /\ m.type = "Discovery"
    /\ active_nodes' = [active_nodes EXCEPT ![n] = @ \cup {m.id}]
    /\ msgs' = SendFrom(msgs \ {m}, DiscoveryReply(n, state[n], m.id))
    /\ UNCHANGED <<state, current_leader, successor_hint, last_heartbeat,
                   election_in_progress, pc, timer, cur, envVars, streamVars, histVars>>

\* LeaderAnnounce acceptance test
AnnounceAccepted(current, leader_id) == current = None \/ leader_id > current

\* LeaderAnnounce: read current_leader and decide
OnLeaderAnnounce(n, m) ==
    /\ Receivable(n, m) /\ m.type = "LeaderAnnounce"
    /\ msgs' = msgs \ {m}
    /\ IF AnnounceAccepted(current_leader[n], m.id)
       THEN /\ Goto(n, "lis", "la_write", 0)
            /\ cur' = [cur EXCEPT ![n] = m]
       ELSE UNCHANGED <<pc, timer, cur>>
    /\ UNCHANGED <<nodeVars, envVars, streamVars, histVars>>

\* LeaderAnnounce accepted: current_leader, state, last_heartbeat
LaWrite(n) ==
    /\ Running(n, "lis", "la_write")
    /\ current_leader' = [current_leader EXCEPT ![n] = cur[n].id]
    /\ state' = [state EXCEPT ![n] = "Follower"]
    /\ last_heartbeat' = [last_heartbeat EXCEPT ![n] = 0]
    /\ Goto(n, "lis", "idle", 0)
    /\ cur' = [cur EXCEPT ![n] = NoMsg]
    /\ UNCHANGED <<successor_hint, active_nodes, election_in_progress,
                   msgs, envVars, streamVars, histVars>>

\* Election from a lower node: start_election is called unless
\* election_in_progress was read set
StartsOwnAlways(in_progress) == TRUE
StartsOwn(in_progress) == ~in_progress

\* Election: record the sender; a higher node answers ElectionOk and calls
\* start_election unless it read election_in_progress set
OnElection(n, m) ==
    /\ Receivable(n, m) /\ m.type = "Election"
    /\ active_nodes' = [active_nodes EXCEPT ![n] = @ \cup {m.id}]
    /\ IF m.id < n
       THEN /\ msgs' = SendFrom(msgs \ {m}, {Msg("ElectionOk", n, m.id, None)})
            /\ Goto(n, "lis", IF StartsOwn(election_in_progress[n])
                                THEN "el_guard" ELSE "idle", 0)
       ELSE /\ msgs' = msgs \ {m}
            /\ UNCHANGED <<pc, timer>>
    /\ UNCHANGED <<state, current_leader, successor_hint, last_heartbeat,
                   election_in_progress, cur, envVars, streamVars, histVars>>

\* ElectionOk: state = Follower
OnElectionOk(n, m) ==
    /\ Receivable(n, m) /\ m.type = "ElectionOk"
    /\ msgs' = msgs \ {m}
    /\ state' = [state EXCEPT ![n] = "Follower"]
    /\ okSeen' = StandDown(n, m)
    /\ deferral' = Answered(n, m)
    /\ UNCHANGED <<current_leader, successor_hint, active_nodes, last_heartbeat,
                   election_in_progress, pc, timer, cur, envVars, streamVars,
                   failover, restarted, dropped,
                   stopped, snap>>

\* Coordinator: what current_leader is set to
CoordinatorLeaderForgetsKnown(self, current, leader_id) ==
    IF current = leader_id THEN None ELSE leader_id
CoordinatorLeader(self, current, leader_id) == leader_id

\* Coordinator: what state is set to
CoordinatorStateUnlessHigher(self, st, leader_id) ==
    IF leader_id < self THEN st ELSE "Follower"
CoordinatorState(self, st, leader_id) == "Follower"

\* Coordinator, first write: current_leader = Some(leader_id)
OnCoordinator(n, m) ==
    /\ Receivable(n, m) /\ m.type = "Coordinator"
    /\ msgs' = msgs \ {m}
    /\ current_leader' = [current_leader EXCEPT
                            ![n] = CoordinatorLeader(n, current_leader[n], m.id)]
    /\ okSeen' = StandDown(n, m)
    /\ deferral' = Answered(n, m)
    /\ Goto(n, "lis", "co_state", 0)
    /\ cur' = [cur EXCEPT ![n] = m]
    /\ UNCHANGED <<state, successor_hint, active_nodes, last_heartbeat,
                   election_in_progress, envVars, streamVars, failover, restarted, dropped,
                   stopped, snap>>

\* Coordinator, the rest: state = Follower, last_heartbeat = now
CoState(n) ==
    /\ Running(n, "lis", "co_state")
    /\ state' = [state EXCEPT ![n] = CoordinatorState(n, state[n], cur[n].id)]
    /\ last_heartbeat' = [last_heartbeat EXCEPT ![n] = 0]
    /\ Goto(n, "lis", "idle", 0)
    /\ cur' = [cur EXCEPT ![n] = NoMsg]
    /\ UNCHANGED <<current_leader, successor_hint, active_nodes,
                   election_in_progress, msgs, envVars, streamVars, histVars>>

\* Heartbeat: current == Some(leader_id)
HeartbeatAcceptedOrLeaderless(current, leader_id) ==
    current = None \/ current = leader_id
HeartbeatAccepted(current, leader_id) == current = leader_id

\* Heartbeat: what successor_hint is set to
HintKeptOnNone(old, successor_id) ==
    IF successor_id = None THEN old ELSE successor_id
HintStored(old, successor_id) == successor_id

\* Heartbeat of the current leader: refresh, store the hint, acknowledge;
\* any other Heartbeat is dropped
OnHeartbeat(n, m) ==
    /\ Receivable(n, m) /\ m.type = "Heartbeat"
    /\ IF HeartbeatAccepted(current_leader[n], m.id)
       THEN /\ last_heartbeat' = [last_heartbeat EXCEPT ![n] = 0]
            /\ successor_hint' = [successor_hint EXCEPT
                                    ![n] = HintStored(@, m.succ)]
            /\ msgs' = SendFrom(msgs \ {m}, {Msg("HeartbeatAck", n, m.id, None)})
            /\ dropped' = None
       ELSE /\ msgs' = msgs \ {m}
            /\ dropped' = n
            /\ UNCHANGED <<last_heartbeat, successor_hint>>
    /\ UNCHANGED <<state, current_leader, active_nodes, election_in_progress,
                   pc, timer, cur, envVars, streamVars, okSeen, failover, restarted,
                   deferral, stopped, snap>>

\* HeartbeatAck: a Leader records the sender
OnHeartbeatAck(n, m) ==
    /\ Receivable(n, m) /\ m.type = "HeartbeatAck"
    /\ msgs' = msgs \ {m}
    /\ active_nodes' = [active_nodes EXCEPT
                          ![n] = IF state[n] = "Leader" THEN @ \cup {m.id} ELSE @]
    /\ UNCHANGED <<state, current_leader, successor_hint, last_heartbeat,
                   election_in_progress, pc, timer, cur, envVars, streamVars, histVars>>

\* ------------------------------------------------------------ all tasks
\* steps that continue a handler or a timer action that has begun
Continue(n) ==
    \/ \E t \in Electors : ElGuardReject(n, t) \/ ElStart(n, t)
                             \/ BlState(n, t) \/ BlAnnounce(n, t)
    \/ MonClearLeader(n) \/ HbSend(n) \/ LaWrite(n) \/ CoState(n)

\* the end of a sleep or a tick of an interval
Timers(n) ==
    \/ DiscoverSend(n) \/ DiscoverCheck(n)
    \/ \E t \in Electors : ElDeferWake(n, t) \/ ElWake(n, t)
    \/ MonTick(n) \/ HbTick(n)

\* the listener takes a datagram
Handle(n, m) ==
    \/ OnDiscovery(n, m) \/ OnLeaderAnnounce(n, m) \/ OnElection(n, m)
    \/ OnElectionOk(n, m) \/ OnCoordinator(n, m) \/ OnHeartbeat(n, m)
    \/ OnHeartbeatAck(n, m)

\* ------------------------------------------------------------ the clock
SleepPcs == {"disc_send", "disc_wait", "el_defer", "el_wait"}

\* the task waits for a sleep or for the next tick of its interval
Sleeping(n, t) ==
    /\ alive[n]
    /\ \/ pc[n][t] \in SleepPcs
       \/ t \in {"mon", "hb"} /\ pc[n][t] = "idle" /\ Spawned(n)

\* a task of n is between two sleeps, or a datagram waits at its idle listener
Busy(n) ==
    /\ alive[n]
    /\ \/ \E t \in Threads : pc[n][t] \notin SleepPcs \cup {"idle", "done", "panicked"}
       \/ \E t \in Threads : Sleeping(n, t) /\ timer[n][t] = 0
       \/ pc[n]["lis"] = "idle" /\ \E m \in msgs : m.dst = n

Settled == \A n \in Nodes : ~Busy(n)

\* 500 ms pass: handlers and sends take no time
Tick ==
    /\ Settled
    /\ timer' = [n \in Nodes |-> [t \in Threads |->
                    IF Sleeping(n, t) THEN timer[n][t] - 1 ELSE timer[n][t]]]
    /\ last_heartbeat' = [n \in Nodes |->
                    IF alive[n] /\ ~Stale(last_heartbeat[n])
                    THEN last_heartbeat[n] + 1 ELSE last_heartbeat[n]]
    /\ dropped' = None
    /\ stopped' = IF stopped.node # None /\ stopped.age <= 2 * HeartbeatEvery
                  THEN [stopped EXCEPT !.age = @ + 1] ELSE stopped
    /\ UNCHANGED <<envVars, streamVars, state, current_leader, successor_hint, active_nodes,
                   election_in_progress, pc, cur, msgs, okSeen, failover,
                   restarted, deferral, snap>>

\* some task of some node is in the middle of a handler or timer action
Midway == \E n \in Nodes, t \in Threads :
             alive[n] /\ pc[n][t] \notin SleepPcs \cup {"idle", "done", "panicked"}

\* every running node has finished its startup and no election runs on it
Idle(n) ==
    /\ pc[n]["main"] = "done" /\ pc[n]["lis"] = "idle"
    /\ pc[n]["mon"] = "idle" /\ pc[n]["hb"] \in {"idle", "panicked"}
    /\ ~election_in_progress[n]

\* nothing is sent and not handled, no election wait is pending
Quiet == ~Midway /\ msgs = {} /\ \A n \in Nodes : alive[n] => Idle(n)

\* the successor every follower holds when leader l stops, if there is one
Designated(l) ==
    LET fs == {f \in Others(l) : alive[f]}
        ok == /\ state[l] = "Leader" /\ fs # {}
              /\ \A f \in fs : /\ state[f] = "Follower" /\ current_leader[f] = l
                               /\ successor_hint[f] \in fs
              /\ \A f, g \in fs : successor_hint[f] = successor_hint[g]
    IN  IF ok THEN successor_hint[CHOOSE f \in fs : TRUE] ELSE None

\* the cluster follows leader l and a heartbeat round has just completed
Steady(l) ==
    /\ Quiet /\ alive[l] /\ state[l] = "Leader" /\ pc[l]["hb"] = "idle"
    /\ \A m \in Nodes : alive[m] => current_leader[m] = l
    /\ \A f \in Others(l) : alive[f] => state[f] = "Follower" /\ last_heartbeat[f] = 0

\* the leader of a complete, steady cluster whose followers all hold the
\* same successor is killed
Crash(n) ==
    /\ kills < MaxKills
    /\ Steady(n) /\ \A m \in Nodes : alive[m]
    /\ Designated(n) # None
    /\ kills' = kills + 1
    /\ failover' = Designated(n)
    /\ alive' = [alive EXCEPT ![n] = FALSE]
    /\ state' = [state EXCEPT ![n] = "Follower"]
    /\ current_leader' = [current_leader EXCEPT ![n] = None]
    /\ successor_hint' = [successor_hint EXCEPT ![n] = None]
    /\ active_nodes' = [active_nodes EXCEPT ![n] = {}]
    /\ last_heartbeat' = [last_heartbeat EXCEPT ![n] = 0]
    /\ election_in_progress' = [election_in_progress EXCEPT ![n] = FALSE]
    /\ pc' = [pc EXCEPT ![n] = InitPc]
    /\ timer' = [timer EXCEPT ![n] = InitTimer]
    /\ okSeen' = [okSeen EXCEPT ![n] = FALSE]
    /\ deferral' = [deferral EXCEPT ![n] = NoDeferral]
    /\ UNCHANGED <<cur, msgs, closed, restarted, dropped, stopped, snap,
                   streamVars>>

\* the killed process is started again (Node::new, start) while the rest
\* of the cluster is steady
Restart(n) ==
    /\ ~alive[n] /\ \E l \in Nodes : Steady(l)
    /\ alive' = [alive EXCEPT ![n] = TRUE]
    /\ restarted' = [restarted EXCEPT ![n] = TRUE]
    /\ failover' = None
    /\ stopped' = IF stopped.node = n THEN NoStop ELSE stopped
    /\ UNCHANGED <<nodeVars, pc, timer, cur, msgs, kills, closed, okSeen,
                   deferral, dropped, snap, streamVars>>

\* The cluster: handlers and timer actions of different tasks are taken one
\* after the other (each runs up to its next sleep before another begins),
\* in any order; time passes when nothing is left to do.
Next ==
    \/ \E n \in Nodes : Continue(n)
    \/ ~Midway /\ \E n \in Nodes : Timers(n)
    \/ ~Midway /\ \E n \in Nodes, m \in msgs : Handle(n, m)
    \/ Tick
    \/ \E n \in Nodes : Crash(n)
    \/ \E n \in Nodes : Restart(n)

Spec == Init /\ [][Next]_vars

\* ------------------------------------------- the cluster losing a follower
\* a follower that the leader of a steady cluster has in active_nodes is
\* killed
FollowerCrash(n) ==
    /\ kills < MaxKills
    /\ alive[n] /\ \E l \in Others(n) : Steady(l) /\ n \in active_nodes[l]
    /\ kills' = kills + 1
    /\ stopped' = [node |-> n, age |-> 0]
    /\ alive' = [alive EXCEPT ![n] = FALSE]
    /\ state' = [state EXCEPT ![n] = "Follower"]
    /\ current_leader' = [current_leader EXCEPT ![n] = None]
    /\ successor_hint' = [successor_hint EXCEPT ![n] = None]
    /\ active_nodes' = [active_nodes EXCEPT ![n] = {}]
    /\ last_heartbeat' = [last_heartbeat EXCEPT ![n] = 0]
    /\ election_in_progress' = [election_in_progress EXCEPT ![n] = FALSE]
    /\ pc' = [pc EXCEPT ![n] = InitPc]
    /\ timer' = [timer EXCEPT ![n] = InitTimer]
    /\ okSeen' = [okSeen EXCEPT ![n] = FALSE]
    /\ deferral' = [deferral EXCEPT ![n] = NoDeferral]
    /\ UNCHANGED <<cur, msgs, closed, failover, restarted, dropped, snap,
                   streamVars>>

LossNext ==
    \/ Next
    \/ \E n \in Nodes : FollowerCrash(n)

LossSpec == Init /\ [][LossNext]_vars

\* ------------------------------------------------- one node on its own
\* Any datagram a peer can send may arrive at any moment and a sleep may
\* end at any moment (closed is FALSE), the heartbeat may be overdue at any
\* moment; the tasks of the node interleave at every step.
Expire(n) ==
    /\ alive[n] /\ ~Stale(last_heartbeat[n])
    /\ last_heartbeat' = [last_heartbeat EXCEPT ![n] = FailTimeout + 1]
    /\ dropped' = None
    /\ UNCHANGED <<state, current_leader, successor_hint, active_nodes,
                   election_in_progress, pc, timer, cur, msgs, envVars, streamVars,
                   okSeen, failover, restarted, deferral, stopped, snap>>

NodeInit ==
    /\ \E n0 \in Nodes : alive = [n \in Nodes |-> n = n0]
    /\ state = [n \in Nodes |-> "Follower"]
    /\ current_leader = [n \in Nodes |-> None]
    /\ successor_hint = [n \in Nodes |-> None]
    /\ active_nodes = [n \in Nodes |-> {}]
    /\ last_heartbeat = [n \in Nodes |-> 0]
    /\ election_in_progress = [n \in Nodes |-> FALSE]
    /\ pc = [n \in Nodes |-> InitPc]
    /\ timer = [n \in Nodes |-> [t \in Threads |-> 0]]
    /\ cur = [n \in Nodes |-> NoMsg]
    /\ msgs = {}
    /\ kills = 0
    /\ closed = FALSE
    /\ okSeen = [n \in Nodes |-> FALSE]
    /\ failover = None
    /\ restarted = [n \in Nodes |-> FALSE]
    /\ deferral = [n \in Nodes |-> NoDeferral]
    /\ dropped = None
    /\ stopped = NoStop
    /\ StreamIdle
    /\ snap = NoSnap

NodeNext ==
    \/ \E n \in Nodes : Continue(n)
    \/ \E n \in Nodes : Timers(n)
    \/ \E n \in Nodes : \E m \in Inbound(n) : Handle(n, m)
    \/ \E n \in Nodes : Expire(n)

NodeSpec == NodeInit /\ [][NodeNext]_vars

\* a step of an invocation of start_election by task t of node n
ElectionStep(n, t) ==
    \/ ElGuardReject(n, t) \/ ElStart(n, t) \/ ElDeferWake(n, t)
    \/ ElWake(n, t) \/ BlState(n, t) \/ BlAnnounce(n, t)

\* the runtime keeps running every task that can run, and every sleep ends
FairNodeSpec ==
    NodeSpec /\ \A n \in Nodes : \A t \in Electors : WF_vars(ElectionStep(n, t))

\* ------------------------------------ a node started alone, in silence
\* One node runs and no datagram ever reaches it: its peers are configured
\* but not running.  Sleeps last their configured time.
SilentInit ==
    /\ \E n0 \in Nodes : alive = [n \in Nodes |-> n = n0]
    /\ state = [n \in Nodes |-> "Follower"]
    /\ current_leader = [n \in Nodes |-> None]
    /\ successor_hint = [n \in Nodes |-> None]
    /\ active_nodes = [n \in Nodes |-> {}]
    /\ last_heartbeat = [n \in Nodes |-> 0]
    /\ election_in_progress = [n \in Nodes |-> FALSE]
    /\ pc = [n \in Nodes |-> InitPc]
    /\ timer = [n \in Nodes |-> InitTimer]
    /\ cur = [n \in Nodes |-> NoMsg]
    /\ msgs = {}
    /\ kills = 0
    /\ closed = TRUE
    /\ okSeen = [n \in Nodes |-> FALSE]
    /\ failover = None
    /\ restarted = [n \in Nodes |-> FALSE]
    /\ deferral = [n \in Nodes |-> NoDeferral]
    /\ dropped = None
    /\ stopped = NoStop
    /\ StreamIdle
    /\ snap = NoSnap

SilentNext ==
    \/ \E n \in Nodes : DiscoverSend(n)
    \/ \E n \in Nodes : DiscoverCheck(n)
    \/ \E n \in Nodes, t \in Electors : ElStart(n, t)
    \/ \E n \in Nodes, t \in Electors : ElWake(n, t)
    \/ \E n \in Nodes, t \in Electors : BlState(n, t)
    \/ \E n \in Nodes, t \in Electors : BlAnnounce(n, t)
    \/ \E n \in Nodes : MonTick(n)
    \/ \E n \in Nodes : HbTick(n)
    \/ \E n \in Nodes : HbSend(n)
    \/ Tick

SilentSpec == SilentInit /\ [][SilentNext]_vars

\* ------------------------------------- one Coordinator, received twice
\* the fields of a node other than last_heartbeat
Fields(n) ==
    [state |-> state[n], current_leader |-> current_leader[n],
     successor_hint |-> successor_hint[n], active_nodes |-> active_nodes[n],
     election_in_progress |-> election_in_progress[n]]

\* the datagram handled once is received again, after no time or after
\* more than the failure timeout; the fields at that moment are recorded
Redeliver(n) ==
    /\ alive[n] /\ snap.round = 1 /\ pc[n]["lis"] = "idle" /\ msgs = {}
    /\ \E age \in {last_heartbeat[n], FailTimeout + 1} :
         /\ last_heartbeat' = [last_heartbeat EXCEPT ![n] = age]
         /\ snap' = [round |-> 2, msg |-> snap.msg, fields |-> Fields(n), age |-> age]
    /\ msgs' = {snap.msg}
    /\ UNCHANGED <<state, current_leader, successor_hint, active_nodes,
                   election_in_progress, pc, timer, cur, envVars, streamVars,
                   okSeen, failover, restarted, deferral,
                   dropped, stopped>>

\* a started node in any condition its fields can be in, with one
\* Coordinator of a peer at its socket
CoordInit ==
    /\ \E n0 \in Nodes :
         /\ alive = [n \in Nodes |-> n = n0]
         /\ \E st \in {"Follower", "Leader"} :
              state = [n \in Nodes |-> IF n = n0 THEN st ELSE "Follower"]
         /\ \E cl \in OptNode :
              current_leader = [n \in Nodes |-> IF n = n0 THEN cl ELSE None]
         /\ \E sh \in OptNode :
              successor_hint = [n \in Nodes |-> IF n = n0 THEN sh ELSE None]
         /\ \E an \in SUBSET Others(n0) :
              active_nodes = [n \in Nodes |-> IF n = n0 THEN an ELSE {}]
         /\ \E age \in {0, FailTimeout + 1} :
              last_heartbeat = [n \in Nodes |-> IF n = n0 THEN age ELSE 0]
         /\ \E eip \in BOOLEAN :
              election_in_progress = [n \in Nodes |-> n = n0 /\ eip]
         /\ pc = [n \in Nodes |-> [t \in Threads |->
                    IF n = n0 /\ t = "main" THEN "done" ELSE InitPc[t]]]
         /\ \E id \in Others(n0) :
              /\ msgs = {Msg("Coordinator", id, n0, None)}
              /\ snap = [round |-> 1, msg |-> Msg("Coordinator", id, n0, None),
                         fields |-> <<>>, age |-> 0]
    /\ timer = [n \in Nodes |-> [t \in Threads |-> 0]]
    /\ cur = [n \in Nodes |-> NoMsg]
    /\ kills = 0
    /\ closed = TRUE
    /\ okSeen = [n \in Nodes |-> FALSE]
    /\ failover = None
    /\ restarted = [n \in Nodes |-> FALSE]
    /\ deferral = [n \in Nodes |-> NoDeferral]
    /\ dropped = None
    /\ stopped = NoStop
    /\ StreamIdle

CoordNext ==
    \/ \E n \in Nodes, m \in msgs : OnCoordinator(n, m)
    \/ \E n \in Nodes : CoState(n)
    \/ \E n \in Nodes : Redeliver(n)

CoordSpec == CoordInit /\ [][CoordNext]_vars

\* ------------------------------------------- stream nodes: connections
\* node.rs and network.rs: every node listens, dials its peers in
\* join_network, binds an accepted connection to the peer its Hello names,
\* and answers a JoinRequest.  A connection is a record: who dialed whom,
\* what travels on it (kind), how far the accepting side has read (stage)
\* and whether both ends still exist (open).  It is known by who dialed
\* whom, for what, and after how many kills.
Joined == MaxNodeId + 1

ConnId(c) == <<c.from, c.to, c.kind, c.gen>>

Dialed(n, d, kind) ==
    [from |-> n, to |-> d, kind |-> kind, gen |-> kills, stage |-> "hello",
     open |-> TRUE]

Conn(id) == CHOOSE c \in conns : ConnId(c) = id

\* connect_to_peer succeeds when the peer's listener is bound
Reachable(d) == alive[d]

\* the field values of a node that is not running
StreamDown(n) ==
    /\ peers' = [peers EXCEPT ![n] = [m \in Nodes |-> NoConn]]
    /\ jp' = [jp EXCEPT ![n] = 0]

\* Node::run: the listener is bound, join_network is about to begin
StreamStart(n) ==
    /\ ~alive[n]
    /\ alive' = [alive EXCEPT ![n] = TRUE]
    /\ StreamDown(n)
    /\ UNCHANGED <<conns, kills, closed, wire, outbox, inbox, lockVars, nodeVars, pc,
                   timer, cur, msgs, histVars>>

\* join_network, one turn of the loop over all_nodes: skip self, dial the
\* peer; on success send JoinRequest and peers.insert(node.id, conn)
JoinDial(n) ==
    /\ alive[n] /\ jp[n] < Joined
    /\ LET d == jp[n]
       IN  IF d # n /\ Reachable(d)
           THEN /\ conns' = conns \cup {Dialed(n, d, "join")}
                /\ peers' = [peers EXCEPT ![n][d] = ConnId(Dialed(n, d, "join"))]
           ELSE UNCHANGED <<conns, peers>>
    /\ jp' = [jp EXCEPT ![n] = @ + 1]
    /\ UNCHANGED <<envVars, wire, outbox, inbox, lockVars, nodeVars, pc, timer, cur,
                   msgs, histVars>>

\* handle_incoming_connection: the first message is Hello{from_node}; the
\* connection is stored unless peers already has that key
OnHello(n, c) ==
    /\ alive[n] /\ c \in conns /\ c.to = n /\ c.open /\ c.stage = "hello"
    /\ peers' = [peers EXCEPT ![n][c.from] = IF @ = NoConn THEN ConnId(c) ELSE @]
    /\ conns' = (conns \ {c}) \cup
                    {[c EXCEPT !.stage = IF c.kind = "join" THEN "join" ELSE "done"]}
    /\ UNCHANGED <<envVars, jp, wire, outbox, inbox, lockVars, nodeVars, pc, timer, cur,
                   msgs, histVars>>

\* handle_message, JoinRequest (message_loop runs once join_network has
\* returned): connect back unless peers has the key, else answer on the
\* connection peers holds
OnJoinRequest(n, c) ==
    /\ alive[n] /\ jp[n] = Joined
    /\ c \in conns /\ c.to = n /\ c.open /\ c.stage = "join"
    /\ IF peers[n][c.from] = NoConn /\ Reachable(c.from)
       THEN /\ conns' = (conns \ {c}) \cup
                    {[c EXCEPT !.stage = "done"], Dialed(n, c.from, "back")}
            /\ peers' = [peers EXCEPT
                            ![n][c.from] = ConnId(Dialed(n, c.from, "back"))]
       ELSE /\ conns' = (conns \ {c}) \cup {[c EXCEPT !.stage = "done"]}
            /\ UNCHANGED peers
    /\ UNCHANGED <<envVars, jp, wire, outbox, inbox, lockVars, nodeVars, pc, timer, cur,
                   msgs, histVars>>

\* every running node has joined and every open connection has been read
\* as far as it goes
AtRest ==
    /\ \A n \in Nodes : alive[n] => jp[n] = Joined
    /\ \A c \in conns : c.open => c.stage = "done"

\* the process of a node is killed while the others are at rest: its
\* connections break; read_loop of the other end returns and leaves peers
\* as it is
StreamKill(n) ==
    /\ kills < MaxKills /\ alive[n] /\ AtRest
    /\ kills' = kills + 1
    /\ alive' = [alive EXCEPT ![n] = FALSE]
    /\ StreamDown(n)
    /\ conns' = {IF c.from = n \/ c.to = n THEN [c EXCEPT !.open = FALSE] ELSE c
                    : c \in conns}
    /\ UNCHANGED <<closed, wire, outbox, inbox, lockVars, nodeVars, pc, timer, cur, msgs,
                   histVars>>

ConnInit ==
    /\ alive = [n \in Nodes |-> FALSE]
    /\ state = [n \in Nodes |-> "Follower"]
    /\ current_leader = [n \in Nodes |-> None]
    /\ successor_hint = [n \in Nodes |-> None]
    /\ active_nodes = [n \in Nodes |-> {}]
    /\ last_heartbeat = [n \in Nodes |-> 0]
    /\ election_in_progress = [n \in Nodes |-> FALSE]
    /\ pc = [n \in Nodes |-> InitPc]
    /\ timer = [n \in Nodes |-> InitTimer]
    /\ cur = [n \in Nodes |-> NoMsg]
    /\ msgs = {}
    /\ kills = 0
    /\ closed = TRUE
    /\ okSeen = [n \in Nodes |-> FALSE]
    /\ failover = None
    /\ restarted = [n \in Nodes |-> FALSE]
    /\ deferral = [n \in Nodes |-> NoDeferral]
    /\ dropped = None
    /\ stopped = NoStop
    /\ snap = NoSnap
    /\ StreamIdle

ConnNext ==
    \/ \E n \in Nodes : StreamStart(n) /\ UNCHANGED pidVars
    \/ \E n \in Nodes : JoinDial(n) /\ UNCHANGED pidVars
    \/ \E n \in Nodes : \E c \in conns : OnHello(n, c) /\ UNCHANGED pidVars
    \/ \E n \in Nodes : \E c \in conns : OnJoinRequest(n, c) /\ UNCHANGED pidVars
    \/ \E n \in Nodes : StreamKill(n) /\ UNCHANGED pidVars

ConnSpec == ConnInit /\ [][ConnNext]_vars

\* n holds a connection to m whose two ends both exist
Working(n, m) ==
    peers[n][m] # NoConn /\ Conn(peers[n][m]).open

\* ------------------------------------------------ stream nodes: framing
\* message.rs: a message is serialized to text and sent behind a length
\* prefix; network.rs: receive_one reads the prefix, then that many bytes,
\* and deserializes them.  The text of a message is its variant's tag
\* followed by its fields in decimal, separated by commas.
Comma == 44
Zero == 48

StreamTypes == {"Hello", "HelloAck", "Heartbeat", "Ping", "Pong", "Election",
                "OK", "Coordinator", "BecomeLeader"}

Tag(type) ==
    CASE type = "Hello" -> 72 [] type = "HelloAck" -> 104
      [] type = "Heartbeat" -> 66 [] type = "Ping" -> 80 [] type = "Pong" -> 112
      [] type = "Election" -> 69 [] type = "OK" -> 79
      [] type = "Coordinator" -> 67 [] type = "BecomeLeader" -> 76

RECURSIVE Digits(_)
Digits(k) == IF k < 10 THEN <<Zero + k>> ELSE Digits(k \div 10) \o <<Zero + (k % 10)>>

RECURSIVE Number(_)
Number(ds) ==
    IF Len(ds) = 1 THEN ds[1] - Zero
    ELSE 10 * Number(SubSeq(ds, 1, Len(ds) - 1)) + (ds[Len(ds)] - Zero)

\* serde_json::to_string
Json(m) ==
    <<Tag(m.type)>> \o Digits(m.from_node) \o
    IF m.type = "Heartbeat"
    THEN <<Comma>> \o Digits(m.timestamp) \o <<Comma>> \o
         Digits(IF m.is_leader THEN 1 ELSE 0) \o <<Comma>> \o
         Digits(m.max_known_pid)
    ELSE <<>>

\* the fields of a text, split at the commas
RECURSIVE Split(_)
Split(bs) ==
    IF \A i \in 1..Len(bs) : bs[i] # Comma THEN <<bs>>
    ELSE LET i == CHOOSE j \in 1..Len(bs) :
                      bs[j] = Comma /\ \A k \in 1..(j - 1) : bs[k] # Comma
         IN  <<SubSeq(bs, 1, i - 1)>> \o Split(SubSeq(bs, i + 1, Len(bs)))

\* serde_json::from_slice
FromJson(bs) ==
    LET type == CHOOSE t \in StreamTypes : Tag(t) = bs[1]
        fs == Split(Tail(bs))
    IN  IF type = "Heartbeat"
        THEN [type |-> type, from_node |-> Number(fs[1]),
              timestamp |-> Number(fs[2]), is_leader |-> Number(fs[3]) = 1,
              max_known_pid |-> Number(fs[4])]
        ELSE [type |-> type, from_node |-> Number(fs[1])]

\* len.to_be_bytes() of a u32
LittleEndian(len) ==
    <<len % 256, (len \div 256) % 256, (len \div 65536) % 256,
      (len \div 16777216) % 256>>
BigEndian(len) ==
    <<(len \div 16777216) % 256, (len \div 65536) % 256, (len \div 256) % 256,
      len % 256>>

\* stream.read_u32()
ReadU32(bs) == ((bs[1] * 256 + bs[2]) * 256 + bs[3]) * 256 + bs[4]

\* Message::to_bytes (json.len() as u32 keeps the length: the text of a
\* message is a few dozen bytes)
to_bytes(m) == BigEndian(Len(Json(m))) \o Json(m)

\* receive_one can return: the prefix and the bytes it counts are there
FrameReady(bs) == Len(bs) >= 4 /\ Len(bs) >= 4 + ReadU32(bs)

\* PeerConnection::receive_one: the message, and the stream after it
receive_one(bs) ==
    LET len == ReadU32(bs)
    IN  [message |-> FromJson(SubSeq(bs, 5, 4 + len)),
         rest |-> SubSeq(bs, 5 + len, Len(bs))]

\* the messages written in this model
FrameMsgs ==
    {[type |-> "Hello", from_node |-> 0],
     [type |-> "Coordinator", from_node |-> 12],
     [type |-> "Heartbeat", from_node |-> 2, timestamp |-> 1700,
      is_leader |-> TRUE, max_known_pid |-> 10],
     [type |-> "Heartbeat", from_node |-> 107, timestamp |-> 0,
      is_leader |-> FALSE, max_known_pid |-> 2]}

\* PeerConnection::send: write_all of to_bytes(m)
WriteFrame(m) ==
    /\ Len(outbox) < MaxBatch
    /\ wire' = wire \o to_bytes(m)
    /\ outbox' = Append(outbox, m)
    /\ UNCHANGED <<inbox, lockVars, pidVars, peers, conns, jp, envVars, nodeVars, pc, timer, cur,
                   msgs, histVars>>

\* read_loop: one receive_one
ReadFrame ==
    /\ FrameReady(wire)
    /\ inbox' = Append(inbox, receive_one(wire).message)
    /\ wire' = receive_one(wire).rest
    /\ UNCHANGED <<outbox, lockVars, pidVars, peers, conns, jp, envVars, nodeVars, pc, timer, cur,
                   msgs, histVars>>

FrameNext ==
    \/ \E m \in FrameMsgs : WriteFrame(m)
    \/ ReadFrame

FrameSpec == ConnInit /\ [][FrameNext]_vars

\* ----------------------------------- stream nodes: the stream's mutex
\* network.rs: one accepted connection.  read_loop calls receive_one again
\* and again; a second task calls send.  Both begin with
\* self.stream.lock().await on the same tokio Mutex, which serves its
\* waiters in order, and keep the guard to their end.
\* stream.lock().await: the lock when it is free, else a place in the queue
Acquire(task) ==
    IF mutex.holder = "none"
    THEN [mutex EXCEPT !.holder = task]
    ELSE [mutex EXCEPT !.waiting = Append(@, task)]

\* the guard is dropped: the lock passes to the first waiter
Release ==
    IF mutex.waiting = <<>>
    THEN [mutex EXCEPT !.holder = "none"]
    ELSE [holder |-> Head(mutex.waiting), waiting |-> Tail(mutex.waiting)]

\* the position of a task that needs the lock, given who holds it
Placed(task, m, held) == IF m.holder = task THEN held ELSE "queued"

\* read_loop enters receive_one: stream.lock().await
RdLock ==
    /\ rd = "call"
    /\ mutex' = Acquire("reader")
    /\ rd' = Placed("reader", mutex', "read")
    /\ UNCHANGED <<wr, sent, wire, outbox, inbox, pidVars, peers, conns, jp,
                   envVars, nodeVars, pc, timer, cur, msgs, histVars>>

\* receive_one, holding the lock: read_u32 and read_exact return once the
\* frame is there; the guard is dropped at the return
RdReturn ==
    /\ rd = "read" /\ mutex.holder = "reader"
    /\ FrameReady(wire)
    /\ inbox' = Append(inbox, receive_one(wire).message)
    /\ wire' = receive_one(wire).rest
    /\ mutex' = Release
    /\ rd' = "call"
    /\ wr' = IF mutex'.holder = "sender" THEN "write" ELSE wr
    /\ UNCHANGED <<sent, outbox, pidVars, peers, conns, jp, envVars, nodeVars,
                   pc, timer, cur, msgs, histVars>>

\* PeerConnection::send begins: stream.lock().await
WrLock ==
    /\ wr = "idle" /\ sent < MaxBatch
    /\ mutex' = Acquire("sender")
    /\ wr' = Placed("sender", mutex', "write")
    /\ UNCHANGED <<rd, sent, wire, outbox, inbox, pidVars, peers, conns, jp,
                   envVars, nodeVars, pc, timer, cur, msgs, histVars>>

\* send, holding the lock: write_all, then the guard is dropped
WrWrite ==
    /\ wr = "write" /\ mutex.holder = "sender"
    /\ sent' = sent + 1
    /\ mutex' = Release
    /\ wr' = "idle"
    /\ rd' = IF mutex'.holder = "reader" THEN "read" ELSE rd
    /\ UNCHANGED <<wire, outbox, inbox, pidVars, peers, conns, jp, envVars,
                   nodeVars, pc, timer, cur, msgs, histVars>>

\* the local tasks, and the peer writing a frame to the connection
LockNext ==
    \/ RdLock
    \/ RdReturn
    \/ WrLock
    \/ WrWrite
    \/ \E m \in FrameMsgs : WriteFrame(m)

LockSpec == ConnInit /\ [][LockNext]_vars

\* --------------------------------- stream nodes: dynamic logical PIDs
\* node.rs: a node is constructed with logical PID 2, joins, and then runs
\* its message loop, its heartbeat task and its failure detector.  What a
\* node writes to the connection it holds for a peer reaches the peer's
\* message loop when the node dialed that connection (the peer's
\* handle_incoming_connection reads it); nothing reads the dialing end of a
\* connection, so what is written to a connection the peer dialed stays
\* unread.
PMsg(type, physical_id, logical_pid, old_logical_pid, leader) ==
    [type |-> type, physical_id |-> physical_id, logical_pid |-> logical_pid,
     old_logical_pid |-> old_logical_pid, is_leader |-> leader]

Min(S) == CHOOSE x \in S : \A y \in S : x <= y

\* connection id of n is one n dialed, to d, whose far end is read
Carries(id, n, d, cs) ==
    /\ id # NoConn /\ id[1] = n /\ alive[d]
    /\ \E c \in cs : ConnId(c) = id /\ c.open

\* connection id of n is one the peer dialed: the peer never reads it
Deaf(id, n, cs) ==
    /\ id # NoConn /\ id[1] # n
    /\ \E c \in cs : ConnId(c) = id /\ c.open

\* message_rx of every node after n has sent the messages ms, in order, on
\* every connection of the table held
Posted(n, held, cs, ms) ==
    [d \in Nodes |-> IF d # n /\ Carries(held[d], n, d, cs)
                     THEN message_rx[d] \o ms ELSE message_rx[d]]

\* the messages among them that will never be read
Stuck(n, held, cs, ms) ==
    unread \cup {[to |-> d, message |-> ms[i]] :
                    d \in {x \in Nodes \ {n} : Deaf(held[x], n, cs)},
                    i \in DOMAIN ms}

\* the fields of a node as Node::new leaves them
Constructed(n) ==
    /\ my_logical_pid' = [my_logical_pid EXCEPT ![n] = 2]
    /\ is_leader' = [is_leader EXCEPT ![n] = FALSE]
    /\ physical_to_logical' =
           [physical_to_logical EXCEPT ![n] = [m \in Nodes |-> None]]
    /\ logical_to_physical' =
           [logical_to_physical EXCEPT ![n] = [l \in LogicalPids |-> None]]
    /\ heard' = [heard EXCEPT ![n] = {}]
    /\ message_rx' = [message_rx EXCEPT ![n] = <<>>]
    /\ unread' = {u \in unread : u.to # n}

\* Node::new and the start of run
PidStart(n) == StreamStart(n) /\ Constructed(n)

\* connected_count == 0 at the end of join_network
Alone(n, held) == \A d \in Nodes : held[d] = NoConn \/ held[d][1] # n

\* join_network: one turn of its loop; after the last turn and the wait, a
\* node that connected to nobody makes itself leader with logical PID 2
PidJoinDial(n) ==
    /\ JoinDial(n)
    /\ IF jp'[n] = Joined /\ Alone(n, peers'[n])
       THEN /\ my_logical_pid' = [my_logical_pid EXCEPT ![n] = 2]
            /\ is_leader' = [is_leader EXCEPT ![n] = TRUE]
            /\ physical_to_logical' = [physical_to_logical EXCEPT ![n][n] = 2]
            /\ logical_to_physical' = [logical_to_physical EXCEPT ![n][2] = n]
       ELSE UNCHANGED <<my_logical_pid, is_leader, physical_to_logical,
                        logical_to_physical>>
    /\ UNCHANGED <<heard, message_rx, unread>>

PidHello(n, c) == OnHello(n, c) /\ UNCHANGED pidVars

\* handle_message, JoinRequest: JoinResponse with the node's logical PID and
\* is_leader, on the connection peers holds after the connecting back
PidJoinRequest(n, c) ==
    /\ OnJoinRequest(n, c)
    /\ LET response == <<PMsg("JoinResponse", n, my_logical_pid[n], None,
                              is_leader[n])>>
           held == [d \in Nodes |-> IF d = c.from THEN peers'[n][d] ELSE NoConn]
       IN  /\ message_rx' = Posted(n, held, conns', response)
           /\ unread' = Stuck(n, held, conns', response)
    /\ UNCHANGED <<my_logical_pid, is_leader, physical_to_logical,
                   logical_to_physical, heard>>

\* message_loop has the next message: the first of message_rx, once what
\* its sender wrote earlier on the same connection has been handled
Next_rx(n, type) ==
    /\ alive[n] /\ jp[n] = Joined
    /\ message_rx[n] # <<>>
    /\ Head(message_rx[n]).type = type
    /\ \A c \in conns :
          (c.from = Head(message_rx[n]).physical_id /\ c.to = n /\ c.open)
              => c.stage = "done"

\* the first logical PID that no entry of the table holds
Available(p2l) ==
    LET taken == {p2l[x] : x \in Nodes}
        free == LogicalPids \ taken
    IN  IF free = {} THEN None ELSE Min(free)

\* handle_message, JoinResponse
OnJoinResponse(n) ==
    /\ Next_rx(n, "JoinResponse")
    /\ LET m == Head(message_rx[n])
           p2l == [physical_to_logical[n] EXCEPT ![m.physical_id] = m.logical_pid]
           l2p == [logical_to_physical[n] EXCEPT ![m.logical_pid] = m.physical_id]
           pid == Available(p2l)
       IN  /\ heard' = [heard EXCEPT ![n] = @ \cup {m.physical_id}]
           /\ IF pid # None
              THEN /\ my_logical_pid' = [my_logical_pid EXCEPT ![n] = pid]
                   /\ is_leader' = [is_leader EXCEPT ![n] = (pid = 2)]
                   /\ physical_to_logical' =
                          [physical_to_logical EXCEPT ![n] = [p2l EXCEPT ![n] = pid]]
                   /\ logical_to_physical' =
                          [logical_to_physical EXCEPT ![n] = [l2p EXCEPT ![pid] = n]]
              ELSE /\ physical_to_logical' = [physical_to_logical EXCEPT ![n] = p2l]
                   /\ logical_to_physical' = [logical_to_physical EXCEPT ![n] = l2p]
                   /\ UNCHANGED <<my_logical_pid, is_leader>>
    /\ message_rx' = [message_rx EXCEPT ![n] = Tail(@)]
    /\ UNCHANGED <<unread, lockVars, peers, conns, jp, wire, outbox, inbox,
                   envVars, nodeVars, pc, timer, cur, msgs, histVars>>

\* handle_message, Heartbeat
OnPeerHeartbeat(n) ==
    /\ Next_rx(n, "Heartbeat")
    /\ LET m == Head(message_rx[n])
       IN  /\ heard' = [heard EXCEPT ![n] = @ \cup {m.physical_id}]
           /\ physical_to_logical' =
                  [physical_to_logical EXCEPT ![n][m.physical_id] = m.logical_pid]
           /\ logical_to_physical' =
                  [logical_to_physical EXCEPT ![n][m.logical_pid] = m.physical_id]
    /\ message_rx' = [message_rx EXCEPT ![n] = Tail(@)]
    /\ UNCHANGED <<my_logical_pid, is_leader, unread, lockVars, peers, conns,
                   jp, wire, outbox, inbox, envVars, nodeVars, pc, timer, cur,
                   msgs, histVars>>

\* handle_message, LeadershipTakeover
OnLeadershipTakeover(n) ==
    /\ Next_rx(n, "LeadershipTakeover")
    /\ LET m == Head(message_rx[n])
       IN  /\ physical_to_logical' =
                  [physical_to_logical EXCEPT ![n][m.physical_id] = m.logical_pid]
           /\ logical_to_physical' =
                  [logical_to_physical EXCEPT
                      ![n] = [[@ EXCEPT ![m.old_logical_pid] = None]
                                 EXCEPT ![m.logical_pid] = m.physical_id]]
    /\ message_rx' = [message_rx EXCEPT ![n] = Tail(@)]
    /\ UNCHANGED <<my_logical_pid, is_leader, heard, unread, lockVars, peers,
                   conns, jp, wire, outbox, inbox, envVars, nodeVars, pc, timer,
                   cur, msgs, histVars>>

\* ShiftIDs: 0 -> 1, 1 -> 2, 2 stays
Shifted(pid) == IF pid < 2 THEN pid + 1 ELSE pid

\* handle_message, ShiftIDs
OnShiftIDs(n) ==
    /\ Next_rx(n, "ShiftIDs")
    /\ LET old == my_logical_pid[n]
           new == Shifted(old)
       IN  IF new # old
           THEN /\ my_logical_pid' = [my_logical_pid EXCEPT ![n] = new]
                /\ is_leader' = [is_leader EXCEPT ![n] = (new = 2)]
                /\ physical_to_logical' =
                       [physical_to_logical EXCEPT ![n][n] = new]
                /\ logical_to_physical' =
                       [logical_to_physical EXCEPT
                           ![n] = [[@ EXCEPT ![old] = None] EXCEPT ![new] = n]]
           ELSE UNCHANGED <<my_logical_pid, is_leader, physical_to_logical,
                            logical_to_physical>>
    /\ message_rx' = [message_rx EXCEPT ![n] = Tail(@)]
    /\ UNCHANGED <<heard, unread, lockVars, peers, conns, jp, wire, outbox,
                   inbox, envVars, nodeVars, pc, timer, cur, msgs, histVars>>

\* every message that will be read has been handled
Handled == \A n \in Nodes : alive[n] => message_rx[n] = <<>>

\* a Heartbeat of n would change a field of d
News(n, d) ==
    \/ n \notin heard[d]
    \/ physical_to_logical[d][n] # my_logical_pid[n]
    \/ logical_to_physical[d][my_logical_pid[n]] # n

\* heartbeat_task, one tick: Heartbeat on every connection of peers.  The
\* ticks modelled are those that find the nodes at rest and tell a peer
\* that reads them something it does not hold
HeartbeatTask(n) ==
    /\ alive[n] /\ jp[n] = Joined
    /\ AtRest /\ Handled
    /\ \E d \in Nodes \ {n} : Carries(peers[n][d], n, d, conns) /\ News(n, d)
    /\ message_rx' = Posted(n, peers[n], conns,
                        <<PMsg("Heartbeat", n, my_logical_pid[n], None, FALSE)>>)
    /\ UNCHANGED <<my_logical_pid, is_leader, physical_to_logical,
                   logical_to_physical, heard, unread, lockVars, peers, conns,
                   jp, wire, outbox, inbox, envVars, nodeVars, pc, timer, cur,
                   msgs, histVars>>

\* the heartbeats of l reach the message loop of n
Feeds(l, n) == alive[l] /\ jp[l] = Joined /\ Carries(peers[l][n], l, n, conns)

\* last_heartbeat has an entry for l and it is older than LEADER_TIMEOUT
TimedOut(n, l) == l \in heard[n] /\ ~Feeds(l, n)

\* failure_detector_task, a tick that finds the leader timed out: logical
\* PID 1 takes over and tells the others to shift; logical PID 0 takes over
\* when logical PID 1 has timed out as well
Detect(n) ==
    /\ alive[n] /\ jp[n] = Joined
    /\ LET leader == logical_to_physical[n][2]
           pid1 == logical_to_physical[n][1]
           takeover == PMsg("LeadershipTakeover", n, 2, my_logical_pid[n], FALSE)
           shift == PMsg("ShiftIDs", n, 2, None, FALSE)
       IN  /\ leader # None /\ leader # n /\ TimedOut(n, leader)
           /\ \/ /\ my_logical_pid[n] = 1
                 /\ logical_to_physical' =
                        [logical_to_physical EXCEPT
                            ![n] = [[@ EXCEPT ![1] = None] EXCEPT ![2] = n]]
                 /\ message_rx' = Posted(n, peers[n], conns, <<takeover, shift>>)
                 /\ unread' = Stuck(n, peers[n], conns, <<takeover, shift>>)
              \/ /\ my_logical_pid[n] = 0
                 /\ pid1 # None /\ TimedOut(n, pid1)
                 /\ logical_to_physical' =
                        [logical_to_physical EXCEPT
                            ![n] = [l \in LogicalPids |-> IF l = 2 THEN n ELSE None]]
                 /\ message_rx' = Posted(n, peers[n], conns, <<takeover>>)
                 /\ unread' = Stuck(n, peers[n], conns, <<takeover>>)
    /\ my_logical_pid' = [my_logical_pid EXCEPT ![n] = 2]
    /\ is_leader' = [is_leader EXCEPT ![n] = TRUE]
    /\ physical_to_logical' = [physical_to_logical EXCEPT ![n][n] = 2]
    /\ UNCHANGED <<heard, lockVars, peers, conns, jp, wire, outbox, inbox,
                   envVars, nodeVars, pc, timer, cur, msgs, histVars>>

\* the process of the leader is killed while the others are at rest
PidKill(n) == StreamKill(n) /\ is_leader[n] /\ Handled /\ Constructed(n)

PidNext ==
    \/ \E n \in Nodes : PidStart(n)
    \/ \E n \in Nodes : PidJoinDial(n)
    \/ \E n \in Nodes : \E c \in conns : PidHello(n, c)
    \/ \E n \in Nodes : \E c \in conns : PidJoinRequest(n, c)
    \/ \E n \in Nodes : OnJoinResponse(n)
    \/ \E n \in Nodes : OnPeerHeartbeat(n)
    \/ \E n \in Nodes : OnLeadershipTakeover(n)
    \/ \E n \in Nodes : OnShiftIDs(n)
    \/ \E n \in Nodes : HeartbeatTask(n)
    \/ \E n \in Nodes : Detect(n)
    \/ \E n \in Nodes : PidKill(n)

PidSpec == ConnInit /\ [][PidNext]_vars

TypeOK ==
    /\ alive \in [Nodes -> BOOLEAN]
    /\ state \in [Nodes -> NodeState]
    /\ current_leader \in [Nodes -> OptNode]
    /\ successor_hint \in [Nodes -> OptNode]
    /\ active_nodes \in [Nodes -> SUBSET Nodes]
    /\ election_in_progress \in [Nodes -> BOOLEAN]
    /\ closed \in BOOLEAN

\* ------------------------------------------------------------ claims
Leaders == {n \in Nodes : alive[n] /\ state[n] = "Leader"}

\* C1: when every datagram has been handled and no node is in its startup
\* or in an election, at most one running node has state Leader
C1_SingleLeaderWhenQuiet == Quiet => Cardinality(Leaders) <= 1

\* a quiet cluster in which a node below the highest id leads and the
\* highest id, which was Leader before it, follows
C1_Witness ==
    \E l \in Nodes : Steady(l) /\ l < MaxNodeId /\ alive[MaxNodeId] /\ kills = 0

\* C2: from a cold start with no process killed, a cluster that has settled
\* on a leader (all follow it, heartbeat round complete, nothing pending)
\* has settled on the highest configured id
C2_ColdStartElectsHighest ==
    (kills = 0 /\ \E l \in Nodes : Steady(l)) => Steady(MaxNodeId)

\* C3: in every state of a running node, state = Leader implies
\* current_leader = Some(self)
C3_LeaderKnowsItself ==
    \A n \in Nodes : alive[n] /\ state[n] = "Leader" => current_leader[n] = n

\* C4: on every running node, successor_hint and current_leader differ
\* when both are set
C4_HintIsNotLeader ==
    \A n \in Nodes :
        alive[n] /\ successor_hint[n] # None /\ current_leader[n] # None
            => successor_hint[n] # current_leader[n]

\* C5: a node that handled an ElectionOk or a Coordinator of a higher node
\* during the wait of its classic Bully step does not go on to become_leader
\* when the wait ends
C5_StandDownOnOk ==
    [][\A n \in Nodes, t \in Electors :
          ElWake(n, t) /\ okSeen[n] => pc'[n][t] # "bl_state"]_vars

\* C6: after the leader is killed while every follower holds the same live
\* successor S, no node waits in the classic Bully step and no node other
\* than S is, or is becoming, Leader
C6_FastFailover ==
    failover # None =>
        \A n \in Nodes : alive[n] =>
            /\ \A t \in Electors : pc[n][t] # "el_wait"
            /\ n # failover =>
                 /\ state[n] # "Leader"
                 /\ \A t \in Electors : pc[n][t] \notin {"bl_state", "bl_leader"}

\* C7: once the highest id has been restarted and the cluster has settled
\* on a leader again, that leader is the highest id
C7_RestartedHighestLeads ==
    (alive[MaxNodeId] /\ restarted[MaxNodeId] /\ \E l \in Nodes : Steady(l))
        => Steady(MaxNodeId)

\* C8: a Coordinator whose leader_id is below the current_leader the node
\* holds changes neither current_leader nor, on a Leader, the role
C8_LowerCoordinatorIgnored ==
    [][\A n \in Nodes :
          /\ \A m \in msgs :
                (OnCoordinator(n, m) /\ current_leader[n] # None
                                     /\ m.id < current_leader[n])
                    => current_leader'[n] = current_leader[n]
          /\ (CoState(n) /\ state[n] = "Leader" /\ cur[n].id < n)
                    => state'[n] = "Leader"]_vars

\* the second receipt of the Coordinator has been handled
HandledTwice(n) ==
    alive[n] /\ snap.round = 2 /\ msgs = {} /\ pc[n]["lis"] = "idle"

\* C9: after the same Coordinator has been handled a second time, state,
\* current_leader, successor_hint, active_nodes and election_in_progress
\* are what they were after the first time, and last_heartbeat is fresh
C9_SecondCoordinatorChangesNothing ==
    \A n \in Nodes :
        HandledTwice(n) => Fields(n) = snap.fields /\ last_heartbeat[n] = 0

\* the second receipt came after the heartbeat had gone stale, on a node
\* with an election in progress and a successor hint stored
C9_Witness ==
    \E n \in Nodes :
        /\ HandledTwice(n) /\ Stale(snap.age)
        /\ election_in_progress[n] /\ successor_hint[n] # None

\* the invocations of start_election on n that are past the guard
PastGuard(n) ==
    {t \in Electors : pc[n][t] \in {"el_defer", "el_wait", "bl_state", "bl_leader"}}

\* C10: on every node at most one invocation of start_election is past the
\* guard, and an invocation that leaves the guard without passing it sends
\* nothing and changes no field
C10_ElectionGuard ==
    /\ [](\A n \in Nodes : Cardinality(PastGuard(n)) <= 1)
    /\ [][\A n \in Nodes, t \in Electors :
            (pc[n][t] = "el_guard" /\ pc'[n][t] \notin {"el_guard"} \cup
                {"el_defer", "el_wait", "bl_state", "bl_leader"})
                => msgs' = msgs /\ nodeVars' = nodeVars]_vars

\* one invocation is past the guard while another caller stands at the
\* guard and finds election_in_progress set
C10_Witness ==
    \E n \in Nodes : \E t, u \in Electors :
        /\ alive[n] /\ t # u /\ t \in PastGuard(n)
        /\ pc[n][u] = "el_guard" /\ election_in_progress[n]

\* C11: whenever election_in_progress is set on a running node it is
\* cleared again later, whatever arrives or does not arrive meanwhile
C11_ElectionConcludes ==
    \A n \in Nodes :
        (alive[n] /\ election_in_progress[n]) ~> ~election_in_progress[n]

\* an invocation sleeps in the 1500 ms wait on a node that is Leader
\* already, with election_in_progress set
C11_Witness ==
    \E n \in Nodes : \E t \in Electors :
        /\ alive[n] /\ election_in_progress[n]
        /\ pc[n][t] = "el_wait" /\ state[n] = "Leader"

\* C12: when a node has finished handling a Coordinator, its
\* election_in_progress is false, also while an invocation of
\* start_election on it sleeps in a wait
C12_CoordinatorCancelsElection ==
    [][\A n \in Nodes : CoState(n) => ~election_in_progress'[n]]_vars

\* C13: an invocation of start_election that passes the guard on a node
\* whose successor_hint is the node itself goes straight into become_leader,
\* with no datagram sent and no sleep; become_leader makes the node Leader
\* and start_election then clears election_in_progress
C13_SuccessorShortCircuit ==
    [][\A n \in Nodes : \A t \in Electors :
          /\ (ElStart(n, t) /\ successor_hint[n] = n)
                => /\ pc'[n][t] = "bl_state" /\ timer'[n][t] = 0
                   /\ msgs' = msgs
          /\ BlState(n, t) => state'[n] = "Leader"
          /\ BlAnnounce(n, t) => ~election_in_progress'[n]]_vars

\* the designated successor, which has a higher peer configured, stands in
\* become_leader right after its monitor called start_election
C13_Witness ==
    \E n \in Nodes :
        /\ alive[n] /\ successor_hint[n] = n /\ HigherNodes(n) # {}
        /\ pc[n]["mon"] = "bl_state" /\ election_in_progress[n]

\* C14: an invocation that deferred to a higher successor s and whose node
\* handled an ElectionOk or a Coordinator of s during the 800 ms wait
\* returns at the end of that wait, the node a Follower, with no further
\* Election sent
C14_DeferralStandsDown ==
    [][\A n \in Nodes : \A t \in Electors :
          (ElDeferWake(n, t) /\ deferral[n].ok)
              => /\ pc'[n][t] = ReturnPc(t)
                 /\ msgs' = msgs
                 /\ state'[n] = "Follower"]_vars

\* C15: a node that runs alone and hears nothing goes from the end of the
\* 1500 ms wait into become_leader, is Leader with current_leader = Some(self)
\* from then on, and every Heartbeat it sends carries successor_id = None
C15_VictoryBySilence ==
    /\ [][\A n \in Nodes : \A t \in Electors :
            /\ ElWake(n, t) => pc'[n][t] = "bl_state"
            /\ BlAnnounce(n, t) => state'[n] = "Leader" /\ current_leader'[n] = n
            /\ HbSend(n) => /\ current_leader[n] = n
                            /\ calculate_successor(n, active_nodes[n],
                                                   current_leader[n]) = None]_vars
    /\ [](\A n \in Nodes :
            Spawned(n) => state[n] = "Leader" /\ current_leader[n] = n)

\* a node with a higher peer configured is Leader and about to send a
\* Heartbeat
C15_Witness ==
    \E n \in Nodes :
        /\ alive[n] /\ HigherNodes(n) # {} /\ state[n] = "Leader"
        /\ current_leader[n] = n /\ pc[n]["hb"] = "hb_send"

\* C16: a node that handles Election from a lower node sends the one
\* ElectionOk carrying its own id to that sender and nothing else, and its
\* listener calls start_election exactly when election_in_progress is false
C16_ElectionAnswered ==
    [][\A n \in Nodes : \A m \in msgs :
          (OnElection(n, m) /\ m.id < n)
              => /\ msgs' \ msgs \subseteq {Msg("ElectionOk", n, m.id, None)}
                 /\ alive[m.id] => Msg("ElectionOk", n, m.id, None) \in msgs'
                 /\ pc'[n]["lis"] = IF election_in_progress[n]
                                    THEN "idle" ELSE "el_guard"]_vars

\* a listener has answered a lower node and is entering start_election
C16_Witness ==
    \E n \in Nodes : \E l \in Nodes :
        /\ l < n /\ alive[n] /\ pc[n]["lis"] = "el_guard"
        /\ Msg("ElectionOk", n, l, None) \in msgs

\* C17: when become_leader runs to its end and no other task has written
\* state since its first write, the node is Leader, current_leader is its
\* own id, successor_hint is None, active_nodes is empty, and the step has
\* sent Coordinator{self} to every other node (a datagram to a node that is
\* not running is lost), to nobody else, and not to itself
C17_BecomeLeaderComplete ==
    [][\A n \in Nodes : \A t \in Electors :
          (BlAnnounce(n, t) /\ state[n] = "Leader")
              => /\ state'[n] = "Leader"
                 /\ current_leader'[n] = n
                 /\ successor_hint'[n] = None
                 /\ active_nodes'[n] = {}
                 /\ \A d \in Nodes \ {n} :
                        alive[d] => Msg("Coordinator", n, d, None) \in msgs'
                 /\ \A x \in msgs' \ msgs :
                        x.type = "Coordinator" /\ x.id = n /\ x.dst # n
                 /\ Msg("Coordinator", n, n, None) \notin msgs']_vars

\* a new leader whose Coordinator is on its way to both other nodes
C17_Witness ==
    \E n \in Nodes :
        /\ alive[n] /\ state[n] = "Leader" /\ current_leader[n] = n
        /\ successor_hint[n] = None /\ active_nodes[n] = {}
        /\ \A d \in Nodes \ {n} : Msg("Coordinator", n, d, None) \in msgs

\* C18: a node that handles a Heartbeat of the node its current_leader
\* names refreshes last_heartbeat, sets successor_hint to the successor_id
\* carried (None too), sends the one HeartbeatAck carrying its own id to
\* that leader and nothing else, and keeps state and current_leader
C18_FollowerHeartbeat ==
    [][\A n \in Nodes : \A m \in msgs :
          (OnHeartbeat(n, m) /\ current_leader[n] = m.id)
              => /\ last_heartbeat'[n] = 0
                 /\ successor_hint'[n] = m.succ
                 /\ msgs' \ msgs \subseteq {Msg("HeartbeatAck", n, m.id, None)}
                 /\ alive[m.id] => Msg("HeartbeatAck", n, m.id, None) \in msgs'
                 /\ state'[n] = state[n]
                 /\ current_leader'[n] = current_leader[n]]_vars

\* after a failover a follower has taken successor_id = None from the new
\* leader's Heartbeat and its HeartbeatAck is on its way
C18_Witness ==
    \E n \in Nodes : \E l \in Nodes \ {n} :
        /\ kills = 1 /\ alive[n] /\ alive[l]
        /\ state[n] = "Follower" /\ current_leader[n] = l
        /\ last_heartbeat[n] = 0 /\ successor_hint[n] = None
        /\ Msg("HeartbeatAck", n, l, None) \in msgs

\* C19: a node that handles a Heartbeat of a node its current_leader does
\* not name (current_leader None included) changes none of its fields and
\* sends nothing
C19_StaleHeartbeatIgnored ==
    [][\A n \in Nodes : \A m \in msgs :
          (OnHeartbeat(n, m) /\ current_leader[n] # m.id)
              => /\ state'[n] = state[n]
                 /\ current_leader'[n] = current_leader[n]
                 /\ successor_hint'[n] = successor_hint[n]
                 /\ last_heartbeat'[n] = last_heartbeat[n]
                 /\ active_nodes'[n] = active_nodes[n]
                 /\ election_in_progress'[n] = election_in_progress[n]
                 /\ msgs' = msgs \ {m}]_vars

\* a node that holds no leader, or another one, has just dropped a
\* Heartbeat: nothing answers it and its fields are as the sender's
\* Heartbeat found them
C19_Witness ==
    \E n \in Nodes : \E l \in Nodes \ {n} :
        /\ dropped = n /\ alive[n] /\ current_leader[n] # l
        /\ state[l] = "Leader" /\ alive[l]
        /\ Msg("HeartbeatAck", n, l, None) \notin msgs

\* C20: every Heartbeat a node sends carries as successor_id the highest id
\* of its active_nodes other than its own, or None when there is none, and
\* never the node's own id, which is the Heartbeat's leader_id
C20_SuccessorIsHighestOther ==
    [][\A n \in Nodes :
          (HbSend(n) /\ current_leader[n] # None)
              => LET succ == calculate_successor(n, active_nodes[n],
                                                 current_leader[n])
                     others == active_nodes[n] \ {n}
                 IN  /\ succ # n
                     /\ succ = IF others = {} THEN None ELSE Max(others)]_vars

\* C21: once a follower has been dead, and so silent, for more than two
\* heartbeat periods, no Heartbeat names it as successor_id
C21_SuccessorWithinWindow ==
    \A m \in msgs :
        (m.type = "Heartbeat" /\ stopped.node # None
            /\ stopped.age > 2 * HeartbeatEvery)
            => m.succ # stopped.node

\* C22: a liveness check of a node that is not Leader, whose last_heartbeat
\* is older than the failure timeout and whose election_in_progress is
\* false goes on to set current_leader to None and to call start_election;
\* no step of a liveness check changes current_leader or calls
\* start_election on a node that at that moment is Leader, has a fresh
\* last_heartbeat or has election_in_progress set
C22_LivenessCheck ==
    [][\A n \in Nodes :
          LET due == /\ state[n] # "Leader" /\ Stale(last_heartbeat[n])
                     /\ ~election_in_progress[n]
          IN  /\ (MonTick(n) /\ due) => pc'[n]["mon"] = "mon_eip"
              /\ (MonClearLeader(n) /\ due)
                     => current_leader'[n] = None /\ pc'[n]["mon"] = "el_guard"
              /\ ((MonTick(n) \/ MonClearLeader(n)) /\ ~due)
                     => /\ current_leader'[n] = current_leader[n]
                        /\ pc'[n]["mon"] # "el_guard"]_vars

\* task t of node n is between two writes of one transition: become_leader
\* after state = Leader, Coordinator after current_leader = Some(leader_id),
\* the monitor between its reads of state and last_heartbeat and its write
\* of current_leader
PartWay(n, t) ==
    alive[n] /\ pc[n][t] \in {"bl_leader", "co_state", "mon_eip"}

\* C23: while a task of a node is part way through a multi-field
\* transition, no other task of that node changes state, current_leader,
\* successor_hint, active_nodes or election_in_progress
C23_TransitionsAtomic ==
    [][\A n \in Nodes : \A t \in Threads :
          (PartWay(n, t) /\ pc'[n][t] = pc[n][t]) => Fields(n)' = Fields(n)]_vars

\* C24: every connection was dialed by the node with the smaller id
C24_DialsOnlyHigher ==
    \A c \in conns : c.from < c.to

\* C25: between any two nodes at most one connection is open, and when
\* both hold a connection to the other it is the same connection
C25_OneConnectionPerPair ==
    \A a \in Nodes : \A b \in Nodes :
        a < b =>
            /\ Cardinality({c \in conns : c.open /\ {c.from, c.to} = {a, b}}) <= 1
            /\ (alive[a] /\ alive[b] /\ peers[a][b] # NoConn /\ peers[b][a] # NoConn)
                   => peers[a][b] = peers[b][a]

\* C26: once every running node has joined and every connection has been
\* read as far as it goes, so that nothing is left to happen, every running
\* node holds an open connection to every other running node
C26_ConnectedAtRest ==
    AtRest => \A a \in Nodes : \A b \in Nodes \ {a} :
                  (alive[a] /\ alive[b]) => Working(a, b)

\* the frames of a sequence of messages, one after the other
RECURSIVE Frames(_)
Frames(ms) == IF ms = <<>> THEN <<>> ELSE to_bytes(Head(ms)) \o Frames(Tail(ms))

\* C27: the bytes of every message written are four bytes, which read as a
\* big-endian number give the count of the bytes that follow; what has
\* been read from the stream is the messages written, in order; what is
\* left on the stream is the frames of the messages not yet read, the next
\* of which can be read, and nothing when all have been read
C27_FramingRoundTrip ==
    /\ \A i \in 1..Len(outbox) :
           LET bs == to_bytes(outbox[i])
           IN  Len(bs) >= 4 /\ ReadU32(bs) = Len(bs) - 4
    /\ Len(inbox) <= Len(outbox)
    /\ inbox = SubSeq(outbox, 1, Len(inbox))
    /\ wire = Frames(SubSeq(outbox, Len(inbox) + 1, Len(outbox)))
    /\ Len(inbox) < Len(outbox) => FrameReady(wire)
    /\ Len(inbox) = Len(outbox) => wire = <<>>

\* three different messages have been written and read back, one of them
\* a Heartbeat
C27_Witness ==
    /\ Len(outbox) = 3 /\ inbox = outbox /\ wire = <<>>
    /\ outbox[1] # outbox[2] /\ outbox[2] # outbox[3] /\ outbox[1] # outbox[3]
    /\ \E i \in 1..3 : outbox[i].type = "Heartbeat"

\* C28: a running node whose state is Leader gets another state only in
\* the step that handles a Coordinator of a node with a higher id
C28_LeaderExitRule ==
    [][\A n \in Nodes :
          (alive[n] /\ alive'[n] /\ state[n] = "Leader" /\ state'[n] # "Leader")
              => (CoState(n) /\ cur[n].type = "Coordinator" /\ cur[n].id > n)]_vars


\* C29: a node waiting for answers to the Election messages of an election
\* it started, with election_in_progress set, no ElectionOk received and not
\* Leader, has state Candidate
C29_CandidateWhileElecting ==
    \A n \in Nodes : \A t \in DOMAIN pc[n] :
        (/\ alive[n]
         /\ pc[n][t] = "el_wait"
         /\ election_in_progress[n]
         /\ HigherNodes(n) # {}
         /\ ~okSeen[n]
         /\ state[n] # "Leader")
            => state[n] = "Candidate"


\* C30: when start_election passes the guard on the node with the highest
\* configured id, holding no successor hint, the same step takes it to
\* become_leader with no sleep and no message sent; become_leader then sets
\* state Leader, and the step that ends it sends nothing but Coordinator and
\* leaves election_in_progress false
C30_TopNodeLeadsAtOnce ==
    [][\A t \in Electors :
          LET n == MaxNodeId IN
          (alive[n] /\ alive'[n] /\ pc'[n][t] # pc[n][t]) =>
            /\ (/\ pc[n][t] = "el_guard"
                /\ ~election_in_progress[n]
                /\ successor_hint[n] = None)
                   => /\ pc'[n][t] = "bl_state"
                      /\ timer'[n][t] = 0
                      /\ msgs' = msgs
                      /\ election_in_progress'[n]
            /\ pc[n][t] = "bl_state"
                   => /\ state'[n] = "Leader"
                      /\ pc'[n][t] = "bl_leader"
                      /\ msgs' = msgs
            /\ pc[n][t] = "bl_leader"
                   => /\ current_leader'[n] = n
                      /\ ~election_in_progress'[n]
                      /\ \A m \in msgs' \ msgs : m.type = "Coordinator"
                      /\ pc'[n][t] = ReturnPc(t)]_vars

\* the highest node has just passed the guard with no hint and is Leader
\* one step later, its election still marked in progress
C30_Witness ==
    \E t \in Electors :
        /\ alive[MaxNodeId]
        /\ pc[MaxNodeId][t] = "bl_leader"
        /\ state[MaxNodeId] = "Leader"
        /\ election_in_progress[MaxNodeId]
        /\ successor_hint[MaxNodeId] = None
        /\ \A m \in msgs : ~(m.type = "Election" /\ m.id = MaxNodeId)


\* C31: a node that is Leader and has completed become_leader gets a new
\* entry of active_nodes only in the step that handles a HeartbeatAck of
\* the node entered
C31_AliveSetFromAcks ==
    [][\A n \in Nodes :
          (/\ alive[n] /\ alive'[n]
           /\ state[n] = "Leader"
           /\ \A t \in Electors : pc[n][t] # "bl_leader")
              => \A k \in active_nodes'[n] \ active_nodes[n] :
                    \E m \in msgs \ msgs' :
                        m.type = "HeartbeatAck" /\ m.dst = n /\ m.id = k]_vars


\* C32: the step in which a running node takes a Discovery off the network
\* sends LeaderAnnounce with its own id to the sender, and nothing else,
\* when the node is Leader, and sends nothing when it is not; the step
\* leaves state, current_leader and election_in_progress of the node as
\* they were (a datagram to a node that is not running is lost)
C32_DiscoveryReply ==
    [][\A m \in msgs \ msgs' :
          (m.type = "Discovery" /\ alive[m.dst] /\ alive'[m.dst]) =>
             LET n == m.dst
                 reply == Msg("LeaderAnnounce", n, m.id, None)
             IN  /\ msgs' \ msgs \subseteq
                        (IF state[n] = "Leader" THEN {reply} ELSE {})
                 /\ (state[n] = "Leader" /\ alive[m.id]) => reply \in msgs'
                 /\ state'[n] = state[n]
                 /\ current_leader'[n] = current_leader[n]
                 /\ election_in_progress'[n] = election_in_progress[n]]_vars

\* a Leader has recorded a sender of Discovery and its LeaderAnnounce to
\* that node is on the network, while another node that is not Leader has
\* recorded a sender and no LeaderAnnounce of it exists
C32_Witness ==
    /\ \E n \in Nodes : \E d \in Nodes :
           /\ alive[n] /\ state[n] = "Leader" /\ d \in active_nodes[n]
           /\ restarted[d]
           /\ Msg("LeaderAnnounce", n, d, None) \in msgs
    /\ \E n \in Nodes :
           /\ alive[n] /\ state[n] # "Leader" /\ active_nodes[n] # {}
           /\ \A m \in msgs : ~(m.type = "LeaderAnnounce" /\ m.id = n)


\* C33: the heartbeat task of a running node never panics: whenever it has
\* read state Leader and unwraps current_leader, current_leader is Some
C33_HeartbeatNeverPanics ==
    \A n \in Nodes :
        /\ alive[n] => pc[n]["hb"] # "panicked"
        /\ Running(n, "hb", "hb_send") => current_leader[n] # None


\* C34: a send that waits for the lock of the stream does not depend on the
\* peer: when read_loop holds the lock, the frame it waits for is there
C34_SendNotBlockedByReader ==
    (wr = "queued" /\ mutex.holder = "reader") => FrameReady(wire)


\* C35: in every state of a running node, is_leader is true exactly when
\* my_logical_pid is 2
C35_LeaderIffPidTwo ==
    \A n \in Nodes : alive[n] => (is_leader[n] <=> my_logical_pid[n] = 2)

\* every running node has joined, every message sent has been handled and
\* none is left unread
Delivered == AtRest /\ Handled /\ unread = {}

\* C36: once every JoinResponse, LeadershipTakeover and ShiftIDs sent has
\* been handled, the running nodes hold pairwise distinct logical PIDs and
\* at most one of them has is_leader set
C36_DistinctPidsOneLeader ==
    Delivered =>
        /\ \A n \in Nodes : \A m \in Nodes :
              (alive[n] /\ alive[m] /\ n # m)
                  => my_logical_pid[n] # my_logical_pid[m]
        /\ Cardinality({n \in Nodes : alive[n] /\ is_leader[n]}) <= 1

====
